---- MODULE Spec2Model ----
(***************************************************************************)
(* A model of bccdata.go: the registry of entity descriptions and          *)
(* relationships (DatabaseContext, EntityDescription) and the generic      *)
(* operations Create, FindEntities, FindEntity and FindRelatedEntity.      *)
(*                                                                         *)
(* Go values are modelled by what they are in the language:                *)
(*   - a struct value is a record, copied on assignment and on a call;     *)
(*   - a map is a reference: 0 is the nil map, n > 0 names the n-th map    *)
(*     allocated by make(); copies of a struct share the map;              *)
(*   - a pointer is 0 (nil) or the identity of what it points to.          *)
(***************************************************************************)
EXTENDS Integers, Sequences, FiniteSets, TLC

VARIABLES
    EntityDescriptions,   \* per context: the field DatabaseContext.EntityDescriptions
    relationshipMaps,     \* the maps allocated by RegisterRelationship, by reference
    descriptionVars,      \* the EntityDescription values the caller holds
    registeredAs,         \* per context and name: the argument of the latest registration
    lastOp,               \* the registry operation that produced this state
    opCount,              \* registry operations performed so far
    copies,               \* per caller's value: the stored entries it was copied to or from
    committed,            \* the rows of the datastore's tables that readers see
    nextKey,              \* the datastore's key generator
    implicitKeys,         \* the keys of rows inserted by Create calls given no transaction
    insertStatements,     \* the prepared insert statements shared by all calls
    tx,                   \* per caller: its transaction (*sql.Tx)
    cursor,               \* per caller: the result cursor of its call (*sql.Rows)
    stmt,                 \* per caller: the transaction-bound insert statement
    call,                 \* per caller: the operation in progress and its locals
    callCount             \* operations started so far

registryVars ==
    <<EntityDescriptions, relationshipMaps, descriptionVars, registeredAs, lastOp,
      opCount, copies>>

engineVars ==
    <<committed, nextKey, implicitKeys, insertStatements, tx, cursor, stmt, call,
      callCount>>

vars ==
    <<EntityDescriptions, relationshipMaps, descriptionVars, registeredAs, lastOp,
      opCount, copies, committed, nextKey, implicitKeys, insertStatements, tx, cursor,
      stmt, call, callCount>>

-----------------------------------------------------------------------------
(* Bounds of the model.                                                    *)

NumContexts == 2      \* database contexts
MaxMaps == 2          \* relationship maps allocated
MaxOps == 4           \* registry operations in one run

Contexts == 1..NumContexts

\* The caller's two EntityDescription variables.
DescriptionVars == {1, 2}

-----------------------------------------------------------------------------
(* Values.                                                                 *)

NilContext == 0
NilMap == 0

EntityNames == {"list", "placemark"}

\* The zero value of EntityRelationship (bccdata.go:14-19).
ZeroRelationship ==
    [EntityName |-> "", JoinTableName |-> "", ForeignKey |-> "", TargetKey |-> ""]

\* The zero value of EntityDescription (bccdata.go:21-29).
ZeroDescription ==
    [Name |-> "", TableName |-> "", PrimaryKey |-> "", Relationships |-> NilMap,
     InsertStatement |-> "", CreateZeroInstance |-> "", Context |-> NilContext]

\* The relationships the caller registers.
RelationshipPool ==
    { [EntityName |-> "placemark", JoinTableName |-> "lists_placemarks",
       ForeignKey |-> "placemarksID", TargetKey |-> "id"],
      [EntityName |-> "placemark", JoinTableName |-> "favourites",
       ForeignKey |-> "placeID", TargetKey |-> "uid"],
      [EntityName |-> "list", JoinTableName |-> "lists_placemarks",
       ForeignKey |-> "listsID", TargetKey |-> "id"] }

\* The descriptions the caller constructs: a literal has no relationship map
\* and no context yet.
DescriptionLiterals ==
    { [Name |-> "list", TableName |-> "lists", PrimaryKey |-> "id",
       Relationships |-> NilMap, InsertStatement |-> "insertList",
       CreateZeroInstance |-> "List", Context |-> NilContext],
      [Name |-> "list", TableName |-> "lists_v2", PrimaryKey |-> "uid",
       Relationships |-> NilMap, InsertStatement |-> "insertListV2",
       CreateZeroInstance |-> "ListV2", Context |-> NilContext],
      [Name |-> "placemark", TableName |-> "placemarks", PrimaryKey |-> "id",
       Relationships |-> NilMap, InsertStatement |-> "insertPlacemark",
       CreateZeroInstance |-> "Placemark", Context |-> NilContext] }

-----------------------------------------------------------------------------
(* Go maps.  A map value is a function whose domain is the set of keys     *)
(* present; reading a missing key, or any key of the nil map, gives the    *)
(* zero value of the element type.                                         *)

EmptyMap == [k \in {} |-> ZeroRelationship]

MapGet_SomeOnMiss(m, k, zero) ==
    IF k \in DOMAIN m THEN m[k]
    ELSE IF DOMAIN m = {} THEN zero ELSE m[CHOOSE x \in DOMAIN m : TRUE]

MapGet(m, k, zero) == IF k \in DOMAIN m THEN m[k] ELSE zero

MapPut(m, k, v) == [x \in (DOMAIN m) \cup {k} |-> IF x = k THEN v ELSE m[x]]

\* A context's mapping: init is FALSE while the field is still the nil map.
NilEntityDescriptions == [init |-> FALSE, m |-> EmptyMap]

-----------------------------------------------------------------------------
(* The registry of entity descriptions (bccdata.go:37-49).                 *)

\* bccdata.go:42: the parameter, a copy of the caller's value, gets the
\* context it is registered in.
StampContext_Unset(entityDescription, databaseContext) == entityDescription

StampContext(entityDescription, databaseContext) ==
    [entityDescription EXCEPT !.Context = databaseContext]

\* bccdata.go:44: the stamped copy is stored under its own name.
StoreDescription_KeepFirst(m, entityDescription) ==
    IF entityDescription.Name \in DOMAIN m THEN m
    ELSE MapPut(m, entityDescription.Name, entityDescription)

StoreDescription(m, entityDescription) ==
    MapPut(m, entityDescription.Name, entityDescription)

\* bccdata.go:47-49, on a given value of the contexts' mappings.
DescriptionIn(mappings, databaseContext, entityName) ==
    MapGet(mappings[databaseContext].m, entityName, ZeroDescription)

EntityDescriptionForName(databaseContext, entityName) ==
    DescriptionIn(EntityDescriptions, databaseContext, entityName)

NoOp ==
    [op |-> "none", ctx |-> NilContext, var |-> 0, name |-> "",
     rel |-> ZeroRelationship, replaced |-> FALSE]

\* A copy of a description into or out of the mapping of a context: the entry
\* it made or read, and whether the Relationships field copied was a map
\* already (bccdata.go:54 tests it against nil).
CopyOf(databaseContext, entityName, entityDescription) ==
    [ctx |-> databaseContext, name |-> entityName,
     initialised |-> entityDescription.Relationships # NilMap]

NoCopies == [v \in DescriptionVars |-> {}]

\* bccdata.go:44 replaces the entry of the name: the values copied to or from
\* the entry it replaces are copies of the new entry no longer.
CopiesAfterRegister(databaseContext, v, arg) ==
    [w \in DescriptionVars |->
        {l \in copies[w] : ~(l.ctx = databaseContext /\ l.name = arg.Name)}
        \cup (IF w = v THEN {CopyOf(databaseContext, arg.Name, arg)} ELSE {})]

\* bccdata.go:48 on a name that is stored gives the caller a copy of the
\* entry; whatever the variable held before is overwritten.
CopiesAfterLookup(databaseContext, entityName, v) ==
    [copies EXCEPT ![v] =
        IF entityName \in DOMAIN EntityDescriptions[databaseContext].m
        THEN {CopyOf(databaseContext, entityName,
                     EntityDescriptionForName(databaseContext, entityName))}
        ELSE {}]

\* bccdata.go:37: the parameter is an EntityDescription, not a pointer to
\* one, so what the function assigns to it does not reach the caller's value.
ArgumentAfterCall_Stamped(entityDescription, databaseContext) ==
    [entityDescription EXCEPT !.Context = databaseContext]

ArgumentAfterCall(entityDescription, databaseContext) == entityDescription

\* bccdata.go:37-45.  The argument is passed by value: the caller's variable
\* is not written.
RegisterEntityDescription(databaseContext, v) ==
    LET arg == descriptionVars[v]
        entityDescription == StampContext(arg, databaseContext)
        old == EntityDescriptions[databaseContext].m
    IN  /\ EntityDescriptions' =
              [EntityDescriptions EXCEPT ![databaseContext] =
                  [init |-> TRUE, m |-> StoreDescription(old, entityDescription)]]
        /\ registeredAs' =
              [registeredAs EXCEPT ![databaseContext] = MapPut(@, arg.Name, arg)]
        /\ lastOp' = [NoOp EXCEPT !.op = "RegisterEntityDescription",
                                  !.ctx = databaseContext, !.var = v,
                                  !.name = arg.Name,
                                  !.replaced = arg.Name \in DOMAIN old]
        /\ descriptionVars' =
              [descriptionVars EXCEPT ![v] = ArgumentAfterCall(arg, databaseContext)]
        /\ copies' = CopiesAfterRegister(databaseContext, v, arg)
        /\ UNCHANGED relationshipMaps
    /\ opCount < MaxOps
    /\ opCount' = opCount + 1
    /\ UNCHANGED engineVars

\* entityDescription := databaseContext.EntityDescriptionForName(entityName):
\* the caller takes a copy of the stored value (the zero value on a miss).
LookupEntityDescription(databaseContext, entityName, v) ==
    /\ descriptionVars' =
          [descriptionVars EXCEPT ![v] =
              EntityDescriptionForName(databaseContext, entityName)]
    /\ lastOp' = [NoOp EXCEPT !.op = "EntityDescriptionForName",
                              !.ctx = databaseContext, !.var = v,
                              !.name = entityName]
    /\ copies' = CopiesAfterLookup(databaseContext, entityName, v)
    /\ UNCHANGED <<EntityDescriptions, relationshipMaps, registeredAs>>
    /\ opCount < MaxOps
    /\ opCount' = opCount + 1
    /\ UNCHANGED engineVars

-----------------------------------------------------------------------------
(* The registry of relationships of one description (bccdata.go:53-63).    *)

\* The map a description's Relationships field refers to, given the maps
\* allocated.
RelationshipsIn(maps, entityDescription) ==
    IF entityDescription.Relationships = NilMap THEN EmptyMap
    ELSE maps[entityDescription.Relationships]

RelationshipsOf(entityDescription) ==
    RelationshipsIn(relationshipMaps, entityDescription)

\* bccdata.go:61-63, on a given value of the maps.
RelationshipIn(maps, entityDescription, entityName) ==
    MapGet(RelationshipsIn(maps, entityDescription), entityName, ZeroRelationship)

\* bccdata.go:58.
StoreRelationship_KeepFirst(m, entityRelationship) ==
    IF entityRelationship.EntityName \in DOMAIN m THEN m
    ELSE MapPut(m, entityRelationship.EntityName, entityRelationship)

StoreRelationship(m, entityRelationship) ==
    MapPut(m, entityRelationship.EntityName, entityRelationship)

\* bccdata.go:61-63.
RelationshipForName_SomeOnMiss(entityDescription, entityName) ==
    LET m == RelationshipsIn(relationshipMaps, entityDescription)
    IN  IF entityName \in DOMAIN m \/ DOMAIN m = {}
        THEN MapGet(m, entityName, ZeroRelationship)
        ELSE m[CHOOSE n \in DOMAIN m : TRUE]

RelationshipForName(entityDescription, entityName) ==
    RelationshipIn(relationshipMaps, entityDescription, entityName)

\* bccdata.go:54: make() allocates a new map only while the field is nil.
NeedsMake_Always(entityDescription) == TRUE

NeedsMake(entityDescription) == entityDescription.Relationships = NilMap

\* bccdata.go:53-59, called on the caller's variable v (a pointer receiver).
RegisterRelationship(v, entityRelationship) ==
    LET d == descriptionVars[v]
        fresh == NeedsMake(d)
        ref == IF fresh THEN Len(relationshipMaps) + 1 ELSE d.Relationships
        old == RelationshipsOf(d)
        new == StoreRelationship(old, entityRelationship)
    IN  /\ fresh => Len(relationshipMaps) < MaxMaps
        /\ relationshipMaps' =
              IF fresh THEN Append(relationshipMaps, new)
              ELSE [relationshipMaps EXCEPT ![ref] = new]
        /\ descriptionVars' = [descriptionVars EXCEPT ![v].Relationships = ref]
        /\ lastOp' = [NoOp EXCEPT !.op = "RegisterRelationship", !.var = v,
                                  !.name = entityRelationship.EntityName,
                                  !.rel = entityRelationship,
                                  !.replaced =
                                      entityRelationship.EntityName \in DOMAIN old]
        /\ UNCHANGED <<EntityDescriptions, registeredAs, copies>>
    /\ opCount < MaxOps
    /\ opCount' = opCount + 1
    /\ UNCHANGED engineVars

\* entityRelationship := entityDescription.RelationshipForName(entityName) on
\* the caller's variable v: the caller reads the relationship and keeps
\* nothing else.
LookupRelationship(v, entityName) ==
    /\ lastOp' = [NoOp EXCEPT !.op = "RelationshipForName", !.var = v,
                              !.name = entityName,
                              !.rel = RelationshipForName(descriptionVars[v],
                                                          entityName)]
    /\ UNCHANGED <<EntityDescriptions, relationshipMaps, descriptionVars,
                   registeredAs, copies>>
    /\ opCount < MaxOps
    /\ opCount' = opCount + 1
    /\ UNCHANGED engineVars

-----------------------------------------------------------------------------
(* The datastore, as the engine sees it through database/sql.              *)

MaxRows == 2          \* keys the datastore generates in one run
MaxCalls == 2         \* engine operations started in one run

\* The goroutines that call the engine.
Callers == {1, 2}

Keys == 1..MaxRows

\* What time.Now().Unix() returns (bccdata.go:106).
Times == {1}

\* The context whose connection the engine's operations run on.
TheContext == 1

\* The entities the callers create and find; lists are what they find
\* related placemarks from.
StoredNames == {"placemark"}

\* A row of an entity table; createdDate 0 is NULL, and a column the table
\* does not have is 0 in its rows.  NullRow is the all-NULL row a left outer
\* join gives for a join row without a target.
NullRow == [table |-> "", id |-> 0, uid |-> 0, createdDate |-> 0]

\* What the datastore's tables are: the columns of each, and the rows of the
\* join table, which this layer never writes.
Schema ==
    [t \in {"lists", "lists_v2", "placemarks", "lists_placemarks"} |->
        IF t = "lists_placemarks" THEN {"listsID", "placemarksID"}
        ELSE IF t = "lists_v2" THEN {"uid", "id", "createdDate"}
        ELSE {"id", "createdDate"}]

JoinRows ==
    { [table |-> "lists_placemarks", listsID |-> 1, placemarksID |-> 1],
      [table |-> "lists_placemarks", listsID |-> 1, placemarksID |-> 2] }

\* An entity: the concrete type its factory made, and the row scanned into it.
\* NoEntity is the nil interface value.
NoEntity == [type |-> "", row |-> NullRow]

\* A transaction: the rows it has inserted or updated and not yet committed,
\* and the committed rows these stand in place of.
NilTx == [state |-> "nil", owner |-> "", pending |-> {}, replaced |-> {}]

OpenTx(owner) == [state |-> "open", owner |-> owner, pending |-> {}, replaced |-> {}]

Ended(transaction, state) ==
    [transaction EXCEPT !.state = state, !.pending = {}, !.replaced = {}]

\* The tables once the transaction has committed.
CommittedWith(transaction) ==
    (committed \ transaction.replaced) \cup transaction.pending
NilRows == [state |-> "nil", rest |-> <<>>]

\* The statements of bccdata.go:107, 113, 187 and 233, by their parts.
Statement(verb, table, joinTable, foreignKey, targetKey, where) ==
    [verb |-> verb, table |-> table, joinTable |-> joinTable,
     foreignKey |-> foreignKey, targetKey |-> targetKey, where |-> where]

NoStatement == Statement("", "", "", "", "", "")

\* Whether the datastore knows every table and column a statement names.
WellFormed(sql) ==
    /\ sql.table \in DOMAIN Schema
    /\ IF sql.verb = "JOIN"
       THEN /\ sql.joinTable \in DOMAIN Schema
            /\ {sql.foreignKey, sql.where} \subseteq Schema[sql.joinTable]
            /\ sql.targetKey \in Schema[sql.table]
       ELSE sql.where \in Schema[sql.table]

\* What a statement run on a transaction sees, and what one run on the
\* connection sees.
View(p, onTransaction) ==
    IF onTransaction THEN CommittedWith(tx[p]) ELSE committed

\* The rows a well-formed query yields, each with the row that produced it:
\* an entity row stands for itself; a join row yields its targets, or the
\* all-NULL row when it has none (LEFT OUTER JOIN).
QueryItems(sql, value, view) ==
    IF sql.verb = "JOIN"
    THEN UNION { LET targets == { r \in view : /\ r.table = sql.table
                                                /\ r[sql.targetKey] = j[sql.foreignKey] }
                 IN  IF targets = {} THEN { <<j, NullRow>> }
                     ELSE { <<j, r>> : r \in targets }
                 : j \in { j \in JoinRows : /\ j.table = sql.joinTable
                                            /\ j[sql.where] = value } }
    ELSE { <<r, r>> : r \in { r \in view : /\ r.table = sql.table
                                            /\ r[sql.where] = value } }

\* The orders in which the datastore may return them.
Orderings(S) ==
    { f \in [1..Cardinality(S) -> S] : \A i, j \in 1..Cardinality(S) :
                                          i # j => f[i] # f[j] }

QueryResults(sql, value, view) ==
    { [i \in DOMAIN f |-> f[i][2]] : f \in Orderings(QueryItems(sql, value, view)) }

-----------------------------------------------------------------------------
(* The row scanner: Entity.ScanFromRow (bccdata.go:31-33), which the       *)
(* caller implements.  The engine reads its two results and nothing else,  *)
(* so a call of it is an input: whether a row was consumed, and an error.  *)

\* It consumed a row; it found no row to consume; or it failed on one.
ScanOutcomes ==
    { [ok |-> TRUE, err |-> "nil"], [ok |-> FALSE, err |-> "nil"],
      [ok |-> FALSE, err |-> "ScanErr"] }

\* A row can be consumed only from an open cursor that has one.
CanScan(rows, outcome) ==
    outcome.ok => (rows.state = "open" /\ rows.rest # <<>>)

\* CreateZeroInstance(), then what ScanFromRow leaves in the instance.
ScannedEntity(type, rows, outcome) ==
    [type |-> type, row |-> IF outcome.ok THEN Head(rows.rest) ELSE NullRow]

\* database/sql closes a cursor that is read past its last row.
RowsAfterScan(rows, outcome) ==
    IF outcome.ok THEN [rows EXCEPT !.rest = Tail(@)]
    ELSE IF rows.state = "open" /\ rows.rest = <<>>
         THEN [rows EXCEPT !.state = "closed"]
         ELSE rows

\* rows.Close() and insertStatement.Close(), which the engine defers only
\* for a handle that is not nil (bccdata.go:126-132).
Closed(handle) == IF handle.state = "nil" THEN handle ELSE [handle EXCEPT !.state = "closed"]

-----------------------------------------------------------------------------
(* The engine's calls.  call[p] holds the operation caller p is in, where  *)
(* it stands in it (pc) and its local variables; terminal, log, failed     *)
(* and insertedKey record what the call did, receiver, keyName, targetName *)
(* and queryKey what it was called with, and fetched the rows its query    *)
(* yielded.                                                                *)

IdleCall ==
    [op |-> "idle", pc |-> "idle", self |-> ZeroDescription,
     target |-> ZeroDescription, supplied |-> FALSE, commitAtEnd |-> FALSE,
     err |-> "nil", result |-> 0, objectID |-> 0, createdTime |-> 0,
     sql |-> NoStatement, value |-> 0, entity |-> NoEntity, entities |-> <<>>,
     scanSuccess |-> FALSE, insertedKey |-> 0, failed |-> "", terminal |-> <<>>,
     log |-> <<>>, receiver |-> "", keyName |-> "", targetName |-> "",
     queryKey |-> "", fetched |-> <<>>]

Executed(c, on, sql) == Append(c.log, [on |-> on, sql |-> sql])

\* What an operation is called on: the description registered in TheContext
\* under a name (a copy of the stored value), or the value in one of the
\* caller's own variables.
\* "var1" and "var2" stand for the caller's variables 1 and 2.
OwnValues == {"var1", "var2"}

OwnVar(x) == IF x = "var1" THEN 1 ELSE 2

IsReceiver(x) ==
    \/ x \in OwnValues
    \/ x \in DOMAIN EntityDescriptions[TheContext].m

Receiver(x) ==
    IF x \in OwnValues THEN descriptionVars[OwnVar(x)]
    ELSE EntityDescriptionForName(TheContext, x)

\* bccdata.go:189-193 and 235-239: a query runs on the transaction if one is
\* given, and on the connection of the context otherwise.
QueryOn_Connection(transactionSupplied) == "db"

QueryOn(transactionSupplied) == IF transactionSupplied THEN "tx" ELSE "db"

\* The caller's own transactions: begun, and ended, outside the engine.
CallerBegin(p) ==
    /\ call[p].op = "idle"
    /\ tx[p].state # "open"
    /\ callCount < MaxCalls
    /\ tx' = [tx EXCEPT ![p] = OpenTx("caller")]
    /\ UNCHANGED <<committed, nextKey, implicitKeys, insertStatements, cursor, stmt, call, callCount>>
    /\ UNCHANGED registryVars

CallerCommit(p) ==
    /\ call[p].op = "idle"
    /\ tx[p].state = "open"
    /\ committed' = CommittedWith(tx[p])
    /\ tx' = [tx EXCEPT ![p] = Ended(@, "committed")]
    /\ UNCHANGED <<nextKey, implicitKeys, insertStatements, cursor, stmt, call, callCount>>
    /\ UNCHANGED registryVars

CallerRollback(p) ==
    /\ call[p].op = "idle"
    /\ tx[p].state = "open"
    /\ tx' = [tx EXCEPT ![p] = Ended(@, "rolledback")]
    /\ UNCHANGED <<committed, nextKey, implicitKeys, insertStatements, cursor, stmt, call, callCount>>
    /\ UNCHANGED registryVars

\* The call returns to its caller, who may start another.
Return(p) ==
    /\ call[p].pc = "done"
    /\ call' = [call EXCEPT ![p] = IdleCall]
    /\ cursor' = [cursor EXCEPT ![p] = NilRows]
    /\ stmt' = [stmt EXCEPT ![p] = [state |-> "nil"]]
    /\ UNCHANGED <<committed, nextKey, implicitKeys, insertStatements, tx, callCount>>
    /\ UNCHANGED registryVars

-----------------------------------------------------------------------------
(* Create (bccdata.go:67-143).                                             *)

\* bccdata.go:81-90: commitAtEnd once the transaction is settled.  Line 84
\* sets it before the error of Begin is looked at.
CommitAtEnd_Always(transactionSupplied) == TRUE

CommitAtEnd(transactionSupplied) == ~transactionSupplied

\* bccdata.go:134-140.
TerminalAction_CommitAlways(commitAtEnd, err) ==
    IF ~commitAtEnd THEN "none" ELSE "Commit"

TerminalAction(commitAtEnd, err) ==
    IF ~commitAtEnd THEN "none"
    ELSE IF err # "nil" THEN "Rollback" ELSE "Commit"

\* Create(transaction, args...) is called on a description (bccdata.go:67-90):
\* with no transaction, Context.Database.Begin() starts one, or fails and
\* leaves the nil transaction; on a description whose Context is nil it
\* dereferences nil, and the call panics.
Create(p, entityName, transactionSupplied) ==
    /\ call[p].op = "idle"
    /\ callCount < MaxCalls
    /\ IsReceiver(entityName)
    /\ IF transactionSupplied
       THEN tx[p].state = "open" /\ tx[p].owner = "caller"
       ELSE tx[p].state # "open"
    /\ callCount' = callCount + 1
    /\ LET self == Receiver(entityName)
           c == [IdleCall EXCEPT !.op = "Create", !.self = self,
                                 !.receiver = entityName,
                                 !.supplied = transactionSupplied]
       IN  IF ~transactionSupplied /\ self.Context = NilContext
           THEN /\ call' = [call EXCEPT ![p] =
                      [c EXCEPT !.failed = "context", !.pc = "panic"]]
                /\ UNCHANGED tx
           ELSE \E ok \in BOOLEAN :
                   /\ transactionSupplied => ok
                   /\ tx' = IF transactionSupplied THEN tx
                            ELSE [tx EXCEPT ![p] =
                                    IF ok THEN OpenTx("Create") ELSE NilTx]
                   /\ call' = [call EXCEPT ![p] =
                         [c EXCEPT
                             !.commitAtEnd = CommitAtEnd(transactionSupplied),
                             !.err = IF ok THEN "nil" ELSE "BeginErr",
                             !.failed = IF ok THEN "" ELSE "begin",
                             !.pc = IF ok THEN "exec" ELSE "cleanup"]]
    /\ UNCHANGED <<committed, nextKey, implicitKeys, insertStatements, cursor, stmt>>
    /\ UNCHANGED registryVars

\* The row an insert adds to a description's table: the datastore generates
\* the key, in the table's key column; a table whose key column is not id
\* gets its id from the arguments of Create.  It has no creation date.
InsertValues(entityDescription) ==
    IF entityDescription.PrimaryKey = "id" THEN {0} ELSE Keys

InsertedRow(entityDescription, key, value) ==
    [table |-> entityDescription.TableName,
     id |-> IF entityDescription.PrimaryKey = "id" THEN key ELSE value,
     uid |-> IF entityDescription.PrimaryKey = "id" THEN 0 ELSE key,
     createdDate |-> 0]

\* bccdata.go:92-102: transaction.Stmt(InsertStatement), Exec(args...) and
\* result.LastInsertId().  The insert adds a row with a generated key and no
\* creation date to the transaction's own view; a driver may then fail to
\* tell the key.
CreateExec(p) ==
    /\ call[p].op = "Create" /\ call[p].pc = "exec"
    /\ stmt' = [stmt EXCEPT ![p] = [state |-> "open"]]
    /\ LET c == call[p]
           sql == Statement("INSERT", c.self.TableName, "", "", "", "")
           logged == [c EXCEPT !.log = Executed(c, "tx", sql)]
       IN  \/ /\ nextKey <= MaxRows
              /\ insertStatements[c.self.InsertStatement] = "open"
              /\ \E value \in InsertValues(c.self) :
                    tx' = [tx EXCEPT ![p].pending =
                              @ \cup { InsertedRow(c.self, nextKey, value) }]
              /\ nextKey' = nextKey + 1
              /\ implicitKeys' = IF c.supplied THEN implicitKeys
                                 ELSE implicitKeys \cup {nextKey}
              /\ \E ok \in BOOLEAN :
                    call' = [call EXCEPT ![p] =
                       IF ok
                       THEN [logged EXCEPT !.result = nextKey, !.insertedKey = nextKey,
                                           !.objectID = nextKey, !.pc = "update"]
                       ELSE [logged EXCEPT !.result = nextKey, !.insertedKey = nextKey,
                                           !.err = "LastInsertIdErr",
                                           !.failed = "lastInsertId",
                                           !.pc = "cleanup"]]
           \/ /\ call' = [call EXCEPT ![p] =
                    [logged EXCEPT !.err = "ExecErr", !.failed = "exec",
                                   !.pc = "cleanup"]]
              /\ UNCHANGED <<tx, nextKey, implicitKeys>>
    /\ UNCHANGED <<committed, insertStatements, cursor, callCount>>
    /\ UNCHANGED registryVars

\* bccdata.go:107: the statement that stamps the row.
UpdateCreatedDateSQL(tableName) == Statement("UPDATE", tableName, "", "", "", "id")

\* What the UPDATE does in a transaction: every row the transaction sees in
\* the table, with the value in the column of the WHERE clause, gets the
\* creation date.
Updated(transaction, sql, value, createdTime) ==
    LET matched == { r \in CommittedWith(transaction) :
                        r.table = sql.table /\ r[sql.where] = value }
    IN  [transaction EXCEPT
            !.pending = (@ \ matched)
                            \cup { [r EXCEPT !.createdDate = createdTime] : r \in matched },
            !.replaced = @ \cup (matched \cap committed)]

\* bccdata.go:104-111: time.Now().Unix(), then the UPDATE on the transaction.
CreateUpdate(p) ==
    /\ call[p].op = "Create" /\ call[p].pc = "update"
    /\ LET c == call[p]
           sql == UpdateCreatedDateSQL(c.self.TableName)
           logged == [c EXCEPT !.log = Executed(c, "tx", sql), !.sql = sql]
       IN  \/ /\ WellFormed(sql)
              /\ \E createdTime \in Times :
                    /\ tx' = [tx EXCEPT ![p] =
                          Updated(@, sql, c.objectID, createdTime)]
                    /\ call' = [call EXCEPT ![p] =
                          [logged EXCEPT !.createdTime = createdTime, !.pc = "query"]]
           \/ /\ call' = [call EXCEPT ![p] =
                    [logged EXCEPT !.err = "UpdateErr", !.failed = "update",
                                   !.pc = "cleanup"]]
              /\ UNCHANGED tx
    /\ UNCHANGED <<committed, nextKey, implicitKeys, insertStatements, cursor, stmt, callCount>>
    /\ UNCHANGED registryVars

\* bccdata.go:113: the statement that reads the row back.
QuerySQL(tableName) == Statement("SELECT", tableName, "", "", "", "id")

\* bccdata.go:113-117: the re-select on the transaction.
CreateQuery(p) ==
    /\ call[p].op = "Create" /\ call[p].pc = "query"
    /\ LET c == call[p]
           sql == QuerySQL(c.self.TableName)
           logged == [c EXCEPT !.log = Executed(c, "tx", sql), !.sql = sql]
       IN  \/ /\ WellFormed(sql)
              /\ \E rs \in QueryResults(sql, c.objectID, View(p, TRUE)) :
                    cursor' = [cursor EXCEPT ![p] = [state |-> "open", rest |-> rs]]
              /\ call' = [call EXCEPT ![p] = [logged EXCEPT !.pc = "scan"]]
           \/ /\ call' = [call EXCEPT ![p] =
                    [logged EXCEPT !.err = "QueryErr", !.failed = "query",
                                   !.pc = "cleanup"]]
              /\ UNCHANGED cursor
    /\ UNCHANGED <<committed, nextKey, implicitKeys, insertStatements, tx, stmt, callCount>>
    /\ UNCHANGED registryVars

\* bccdata.go:119-123: the zero instance, scanned from the cursor.  Either
\* way control arrives at cleanup with the scanner's error in err.
CreateScan(p) ==
    /\ call[p].op = "Create" /\ call[p].pc = "scan"
    /\ \E outcome \in ScanOutcomes :
          /\ CanScan(cursor[p], outcome)
          /\ cursor' = [cursor EXCEPT ![p] = RowsAfterScan(@, outcome)]
          /\ call' = [call EXCEPT ![p] =
                [@ EXCEPT !.entity = ScannedEntity(call[p].self.CreateZeroInstance,
                                                   cursor[p], outcome),
                          !.scanSuccess = outcome.ok,
                          !.err = outcome.err,
                          !.failed = IF outcome.ok /\ outcome.err = "nil"
                                     THEN "" ELSE "scan",
                          !.pc = "cleanup"]]
    /\ UNCHANGED <<committed, nextKey, implicitKeys, insertStatements, tx, stmt, callCount>>
    /\ UNCHANGED registryVars

\* bccdata.go:130-132: the statement closed is insertStatement, the handle
\* that transaction.Stmt bound to the transaction (bccdata.go:92); the
\* description's own InsertStatement, which all calls share, is not closed.
InsertStatementsAfterClose_Shared(statements, entityDescription) ==
    [s \in DOMAIN statements |->
        IF s = entityDescription.InsertStatement THEN "closed" ELSE statements[s]]

InsertStatementsAfterClose(statements, entityDescription) == statements

\* bccdata.go:125-142: Commit or Rollback if commitAtEnd, then the deferred
\* closes, then the return.  Commit and Rollback on the nil transaction that
\* a failed Begin leaves dereference nil: the call panics, and does not
\* return.  The error of Commit is dropped; a failed Commit commits nothing.
CreateCleanup(p) ==
    /\ call[p].op = "Create" /\ call[p].pc = "cleanup"
    /\ LET c == call[p]
           action == TerminalAction(c.commitAtEnd, c.err)
           invoked == IF action = "none" THEN c.terminal
                      ELSE Append(c.terminal, action)
       IN  \/ /\ action # "none" /\ tx[p].state = "nil"
              /\ call' = [call EXCEPT ![p] =
                    [c EXCEPT !.terminal = invoked, !.pc = "panic"]]
              /\ UNCHANGED <<tx, committed>>
           \/ /\ action = "none"
              /\ call' = [call EXCEPT ![p] = [c EXCEPT !.pc = "done"]]
              /\ UNCHANGED <<tx, committed>>
           \/ /\ action = "Rollback" /\ tx[p].state # "nil"
              /\ tx' = [tx EXCEPT ![p] = Ended(@, "rolledback")]
              /\ call' = [call EXCEPT ![p] =
                    [c EXCEPT !.terminal = invoked, !.pc = "done"]]
              /\ UNCHANGED committed
           \/ /\ action = "Commit" /\ tx[p].state # "nil"
              /\ \E ok \in BOOLEAN :
                    /\ committed' = IF ok THEN CommittedWith(tx[p]) ELSE committed
                    /\ tx' = [tx EXCEPT ![p] =
                          Ended(@, IF ok THEN "committed" ELSE "rolledback")]
              /\ call' = [call EXCEPT ![p] =
                    [c EXCEPT !.terminal = invoked, !.pc = "done"]]
    /\ cursor' = [cursor EXCEPT ![p] = Closed(@)]
    /\ stmt' = [stmt EXCEPT ![p] = Closed(@)]
    /\ insertStatements' = InsertStatementsAfterClose(insertStatements, call[p].self)
    /\ UNCHANGED <<nextKey, implicitKeys, callCount>>
    /\ UNCHANGED registryVars

-----------------------------------------------------------------------------
(* CreateFromRows (bccdata.go:145-162), one turn of its loop: a zero       *)
(* instance of the description's type is scanned; it is appended if the    *)
(* scanner consumed a row, and the loop ends, with the scanner's error as  *)
(* the error, if it did not.                                               *)

CreateFromRowsStep_KeepLast(c, type, rows, outcome, pcAfter) ==
    [c EXCEPT !.scanSuccess = outcome.ok,
              !.err = outcome.err,
              !.entities = IF outcome.ok
                           THEN << ScannedEntity(type, rows, outcome) >>
                           ELSE @,
              !.failed = IF @ = "" /\ outcome.err # "nil" THEN "scan" ELSE @,
              !.pc = IF outcome.ok THEN c.pc ELSE pcAfter]

CreateFromRowsStep(c, type, rows, outcome, pcAfter) ==
    [c EXCEPT !.scanSuccess = outcome.ok,
              !.err = outcome.err,
              !.entities = IF outcome.ok
                           THEN Append(@, ScannedEntity(type, rows, outcome))
                           ELSE @,
              !.failed = IF @ = "" /\ outcome.err # "nil" THEN "scan" ELSE @,
              !.pc = IF outcome.ok THEN c.pc ELSE pcAfter]

-----------------------------------------------------------------------------
(* FindEntities (bccdata.go:171-209).                                      *)

\* keyName is a *string: NilKeyName is the nil pointer.
NilKeyName == "<nil>"

\* bccdata.go:181-185.
ColumnName(entityDescription, keyName) ==
    IF keyName = NilKeyName THEN entityDescription.PrimaryKey ELSE keyName

\* bccdata.go:187.
SelectStatement(tableName, columnName) ==
    Statement("SELECT", tableName, "", "", "", columnName)

\* The arguments the callers pass: the first key, or a creation date.
FindArguments ==
    { [keyName |-> NilKeyName, value |-> 1] }
        \cup { [keyName |-> "createdDate", value |-> t] : t \in Times }

\* bccdata.go:171-197, entered as op: the statement is built and the query
\* run, on the transaction or on the connection.  With no transaction, on a
\* description whose Context is nil, line 192 dereferences nil and the call
\* panics.
FindEntitiesCall(p, op, entityName, transactionSupplied, arguments) ==
    /\ call[p].op = "idle"
    /\ callCount < MaxCalls
    /\ IsReceiver(entityName)
    /\ transactionSupplied => (tx[p].state = "open" /\ tx[p].owner = "caller")
    /\ callCount' = callCount + 1
    /\ LET self == Receiver(entityName)
           sql == SelectStatement(self.TableName, ColumnName(self, arguments.keyName))
           on == QueryOn(transactionSupplied)
           entered == [IdleCall EXCEPT !.op = op, !.self = self,
                                       !.receiver = entityName,
                                       !.supplied = transactionSupplied,
                                       !.keyName = arguments.keyName,
                                       !.sql = sql, !.value = arguments.value]
           c == [entered EXCEPT !.log = << [on |-> on, sql |-> sql] >>]
       IN  IF on = "db" /\ self.Context = NilContext
           THEN /\ call' = [call EXCEPT ![p] =
                      [entered EXCEPT !.failed = "context", !.pc = "panic"]]
                /\ UNCHANGED cursor
           ELSE \/ /\ WellFormed(sql)
                   /\ \E rs \in QueryResults(sql, arguments.value,
                                             View(p, on = "tx")) :
                         /\ cursor' = [cursor EXCEPT ![p] =
                               [state |-> "open", rest |-> rs]]
                         /\ call' = [call EXCEPT ![p] =
                               [c EXCEPT !.fetched = rs, !.pc = "rows"]]
                \/ /\ call' = [call EXCEPT ![p] =
                         [c EXCEPT !.err = "QueryErr", !.failed = "query",
                                   !.pc = "cleanup"]]
                   /\ UNCHANGED cursor
    /\ UNCHANGED <<committed, nextKey, implicitKeys, insertStatements, tx, stmt>>
    /\ UNCHANGED registryVars

\* FindEntities(transaction, keyName, value) is called on a description.
FindEntities(p, entityName, transactionSupplied, arguments) ==
    FindEntitiesCall(p, "FindEntities", entityName, transactionSupplied, arguments)

\* FindEntity(transaction, keyName, value) is called on a description
\* (bccdata.go:166-167): it calls FindEntities with its own arguments.
FindEntity(p, entityName, transactionSupplied, arguments) ==
    FindEntitiesCall(p, "FindEntity", entityName, transactionSupplied, arguments)

\* The calls that are inside FindEntities.
InFindEntities(c) == c.op \in {"FindEntities", "FindEntity"}

\* bccdata.go:199-203: CreateFromRows(rows).
FindEntitiesScan(p) ==
    /\ InFindEntities(call[p]) /\ call[p].pc = "rows"
    /\ \E outcome \in ScanOutcomes :
          /\ CanScan(cursor[p], outcome)
          /\ cursor' = [cursor EXCEPT ![p] = RowsAfterScan(@, outcome)]
          /\ call' = [call EXCEPT ![p] =
                CreateFromRowsStep(@, @.self.CreateZeroInstance, cursor[p],
                                   outcome, "cleanup")]
    /\ UNCHANGED <<committed, nextKey, implicitKeys, insertStatements, tx, stmt, callCount>>
    /\ UNCHANGED registryVars

\* bccdata.go:205-208: rows.Close() is deferred whether or not there is a
\* cursor; run on the nil cursor of a failed query it dereferences nil, and
\* the call panics instead of returning.
FindEntitiesCleanup(p) ==
    /\ InFindEntities(call[p]) /\ call[p].pc = "cleanup"
    /\ call' = [call EXCEPT ![p].pc =
          IF cursor[p].state = "nil" THEN "panic"
          ELSE IF call[p].op = "FindEntity" THEN "first" ELSE "done"]
    /\ cursor' = [cursor EXCEPT ![p] = Closed(@)]
    /\ UNCHANGED <<committed, nextKey, implicitKeys, insertStatements, tx, stmt, callCount>>
    /\ UNCHANGED registryVars

\* bccdata.go:168: entities[0], and the error, of what FindEntities returned.
\* Indexing a sequence that has no element is out of range: the call panics.
FirstEntity_BlankOnNone(c) ==
    IF Len(c.entities) = 0 THEN [c EXCEPT !.entity = NoEntity, !.pc = "done"]
    ELSE [c EXCEPT !.entity = c.entities[1], !.pc = "done"]

FirstEntity(c) ==
    IF Len(c.entities) = 0 THEN [c EXCEPT !.pc = "panic"]
    ELSE [c EXCEPT !.entity = c.entities[1], !.pc = "done"]

\* bccdata.go:168: FindEntity returns.
FindEntityReturn(p) ==
    /\ call[p].op = "FindEntity" /\ call[p].pc = "first"
    /\ call' = [call EXCEPT ![p] = FirstEntity(@)]
    /\ UNCHANGED <<committed, nextKey, implicitKeys, insertStatements, tx, cursor, stmt, callCount>>
    /\ UNCHANGED registryVars

-----------------------------------------------------------------------------
(* FindRelatedEntity (bccdata.go:211-244).                                 *)

\* bccdata.go:233.
JoinStatement_Swapped(targetTableName, joinTableName, foreignKey, targetKey, queryKey) ==
    Statement("JOIN", targetTableName, joinTableName, queryKey, targetKey, foreignKey)

JoinStatement(targetTableName, joinTableName, foreignKey, targetKey, queryKey) ==
    Statement("JOIN", targetTableName, joinTableName, foreignKey, targetKey, queryKey)

\* The target names the callers pass; "tag" is registered nowhere.
TargetNames == {"placemark", "tag"}

\* FindRelatedEntity(transaction, targetEntityName, queryKey, queryValue) is
\* called on a description (bccdata.go:211-239).  The lookups give zero
\* values for a name they do not know; the statement is built from what they
\* give and the query run; its error is not looked at.  On a description
\* whose Context is nil, the lookup of line 224 dereferences nil and the call
\* panics.
FindRelatedEntity(p, entityName, transactionSupplied, targetEntityName, queryKey, queryValue) ==
    /\ call[p].op = "idle"
    /\ callCount < MaxCalls
    /\ IsReceiver(entityName)
    /\ transactionSupplied => (tx[p].state = "open" /\ tx[p].owner = "caller")
    /\ callCount' = callCount + 1
    /\ LET self == Receiver(entityName)
           entered == [IdleCall EXCEPT !.op = "FindRelatedEntity", !.self = self,
                                       !.receiver = entityName,
                                       !.supplied = transactionSupplied,
                                       !.targetName = targetEntityName,
                                       !.queryKey = queryKey, !.value = queryValue]
       IN  IF self.Context = NilContext
           THEN /\ call' = [call EXCEPT ![p] =
                      [entered EXCEPT !.failed = "context", !.pc = "panic"]]
                /\ UNCHANGED cursor
           ELSE LET relationship == RelationshipForName(self, targetEntityName)
                    targetEntityDescription ==
                        EntityDescriptionForName(self.Context, targetEntityName)
                    sql == JoinStatement(targetEntityDescription.TableName,
                                         relationship.JoinTableName,
                                         relationship.ForeignKey,
                                         relationship.TargetKey, queryKey)
                    on == QueryOn(transactionSupplied)
                    c == [entered EXCEPT !.pc = "rows",
                                         !.target = targetEntityDescription,
                                         !.sql = sql,
                                         !.log = << [on |-> on, sql |-> sql] >>]
                IN  \/ /\ WellFormed(sql)
                       /\ \E rs \in QueryResults(sql, queryValue, View(p, on = "tx")) :
                             /\ cursor' = [cursor EXCEPT ![p] =
                                   [state |-> "open", rest |-> rs]]
                             /\ call' = [call EXCEPT ![p] = [c EXCEPT !.fetched = rs]]
                    \/ /\ call' = [call EXCEPT ![p] =
                             [c EXCEPT !.err = "QueryErr", !.failed = "query"]]
                       /\ UNCHANGED cursor
    /\ UNCHANGED <<committed, nextKey, implicitKeys, insertStatements, tx, stmt>>
    /\ UNCHANGED registryVars

\* bccdata.go:241-243: CreateFromRows(rows) on the target description, and
\* the return.  No cursor is closed.  Given the nil cursor of a failed query,
\* a scanner either dereferences it, and the call panics, or reports that it
\* consumed no row.
FindRelatedEntityScan(p) ==
    /\ call[p].op = "FindRelatedEntity" /\ call[p].pc = "rows"
    /\ \/ /\ cursor[p].state = "nil"
          /\ call' = [call EXCEPT ![p].pc = "panic"]
          /\ UNCHANGED cursor
       \/ \E outcome \in ScanOutcomes :
             /\ CanScan(cursor[p], outcome)
             /\ cursor' = [cursor EXCEPT ![p] = RowsAfterScan(@, outcome)]
             /\ call' = [call EXCEPT ![p] =
                   CreateFromRowsStep(@, @.target.CreateZeroInstance, cursor[p],
                                      outcome, "done")]
    /\ UNCHANGED <<committed, nextKey, implicitKeys, insertStatements, tx, stmt, callCount>>
    /\ UNCHANGED registryVars

-----------------------------------------------------------------------------
(* The registry on its own: the caller constructs descriptions, registers  *)
(* relationships on them, registers them in contexts and looks them up,    *)
(* before any operation of the engine is called.                           *)

\* No caller is in a call or holds a handle; the insert statements are
\* prepared.
CallersIdle ==
    /\ insertStatements =
          [s \in { d.InsertStatement : d \in DescriptionLiterals } |-> "open"]
    /\ tx = [p \in Callers |-> NilTx]
    /\ cursor = [p \in Callers |-> NilRows]
    /\ stmt = [p \in Callers |-> [state |-> "nil"]]
    /\ call = [p \in Callers |-> IdleCall]
    /\ callCount = 0

EngineIdle ==
    /\ committed = {}
    /\ nextKey = 1
    /\ implicitKeys = {}
    /\ CallersIdle

\* The caller's two variables start with two different literals; the
\* operations treat the variables alike, so which holds which is fixed by
\* the order of the tables' names.
LiteralOrder(entityDescription) ==
    CASE entityDescription.TableName = "lists" -> 1
      [] entityDescription.TableName = "lists_v2" -> 2
      [] OTHER -> 3

RegistryInit ==
    /\ EntityDescriptions = [c \in Contexts |-> NilEntityDescriptions]
    /\ relationshipMaps = <<>>
    /\ descriptionVars \in [DescriptionVars -> DescriptionLiterals]
    /\ LiteralOrder(descriptionVars[1]) < LiteralOrder(descriptionVars[2])
    /\ registeredAs = [c \in Contexts |-> EmptyMap]
    /\ lastOp = NoOp
    /\ opCount = 0
    /\ copies = NoCopies
    /\ EngineIdle

RegistryNext ==
    \/ \E c \in Contexts, v \in DescriptionVars : RegisterEntityDescription(c, v)
    \/ \E c \in Contexts, n \in EntityNames, v \in DescriptionVars :
          LookupEntityDescription(c, n, v)
    \/ \E v \in DescriptionVars, r \in RelationshipPool : RegisterRelationship(v, r)
    \/ \E v \in DescriptionVars, n \in EntityNames : LookupRelationship(v, n)

RegistrySpec == RegistryInit /\ [][RegistryNext]_vars

-----------------------------------------------------------------------------
(* The engine: the registry is set up as the program's start-up leaves it  *)
(* (the description of lists, with its relationship to placemarks, and the *)
(* description of placemarks, registered in TheContext), and the callers   *)
(* run the engine's operations concurrently.                               *)

ListsToPlacemarks ==
    [EntityName |-> "placemark", JoinTableName |-> "lists_placemarks",
     ForeignKey |-> "placemarksID", TargetKey |-> "id"]

ListDescription ==
    [Name |-> "list", TableName |-> "lists", PrimaryKey |-> "id",
     Relationships |-> 1, InsertStatement |-> "insertList",
     CreateZeroInstance |-> "List", Context |-> NilContext]

PlacemarkDescription ==
    [Name |-> "placemark", TableName |-> "placemarks", PrimaryKey |-> "id",
     Relationships |-> NilMap, InsertStatement |-> "insertPlacemark",
     CreateZeroInstance |-> "Placemark", Context |-> NilContext]

\* The state after RegisterRelationship(ListsToPlacemarks) on the caller's
\* first description, then RegisterEntityDescription of both in TheContext.
RegistrySetUp ==
    /\ relationshipMaps = << MapPut(EmptyMap, "placemark", ListsToPlacemarks) >>
    /\ descriptionVars =
          [v \in DescriptionVars |->
              IF v = 1 THEN ListDescription ELSE PlacemarkDescription]
    /\ EntityDescriptions =
          [c \in Contexts |->
              IF c = TheContext
              THEN [init |-> TRUE,
                    m |-> MapPut(MapPut(EmptyMap, "list",
                                        StampContext(ListDescription, TheContext)),
                                 "placemark",
                                 StampContext(PlacemarkDescription, TheContext))]
              ELSE NilEntityDescriptions]
    /\ registeredAs =
          [c \in Contexts |->
              IF c = TheContext
              THEN MapPut(MapPut(EmptyMap, "list", ListDescription),
                          "placemark", PlacemarkDescription)
              ELSE EmptyMap]
    /\ lastOp = [NoOp EXCEPT !.op = "RegisterEntityDescription",
                             !.ctx = TheContext, !.var = 2, !.name = "placemark"]
    /\ opCount = 3
    /\ copies =
          [v \in DescriptionVars |->
              {CopyOf(TheContext, descriptionVars[v].Name, descriptionVars[v])}]

Init ==
    /\ RegistrySetUp
    /\ EngineIdle

Next ==
    \/ \E p \in Callers : CallerBegin(p)
    \/ \E p \in Callers : CallerCommit(p)
    \/ \E p \in Callers : CallerRollback(p)
    \/ \E p \in Callers : Return(p)
    \/ \E p \in Callers, n \in StoredNames, supplied \in BOOLEAN :
          Create(p, n, supplied)
    \/ \E p \in Callers : CreateExec(p)
    \/ \E p \in Callers : CreateUpdate(p)
    \/ \E p \in Callers : CreateQuery(p)
    \/ \E p \in Callers : CreateScan(p)
    \/ \E p \in Callers : CreateCleanup(p)
    \/ \E p \in Callers, n \in StoredNames, supplied \in BOOLEAN,
          a \in FindArguments : FindEntities(p, n, supplied, a)
    \/ \E p \in Callers : FindEntitiesScan(p)
    \/ \E p \in Callers : FindEntitiesCleanup(p)
    \/ \E p \in Callers, n \in EntityNames, supplied \in BOOLEAN,
          t \in TargetNames : FindRelatedEntity(p, n, supplied, t, "listsID", 1)
    \/ \E p \in Callers : FindRelatedEntityScan(p)

Spec == Init /\ [][Next]_vars

-----------------------------------------------------------------------------
(* The find operations on a datastore that already holds rows: the         *)
(* registry is set up as above, the table of placemarks holds any of the   *)
(* rows of StoredRows, and a caller runs FindEntities, FindEntity and      *)
(* FindRelatedEntity, with and without a transaction of its own.           *)

StoredRows ==
    { [table |-> "placemarks", id |-> k, uid |-> 0, createdDate |-> t] :
        k \in Keys, t \in Times }

FindInit ==
    /\ RegistrySetUp
    /\ committed \in SUBSET StoredRows
    /\ nextKey = MaxRows + 1
    /\ implicitKeys = {}
    /\ CallersIdle

\* The find operations write nothing, so one caller shows all they do.
OneCaller == {1}

FindNext ==
    \/ \E p \in OneCaller : CallerBegin(p)
    \/ \E p \in OneCaller : CallerRollback(p)
    \/ \E p \in OneCaller : Return(p)
    \/ \E p \in OneCaller, n \in StoredNames, supplied \in BOOLEAN,
          a \in FindArguments : FindEntities(p, n, supplied, a)
    \/ \E p \in OneCaller, n \in StoredNames, supplied \in BOOLEAN,
          a \in FindArguments : FindEntity(p, n, supplied, a)
    \/ \E p \in OneCaller : FindEntitiesScan(p)
    \/ \E p \in OneCaller : FindEntitiesCleanup(p)
    \/ \E p \in OneCaller : FindEntityReturn(p)
    \/ \E p \in OneCaller, n \in EntityNames, supplied \in BOOLEAN,
          t \in TargetNames : FindRelatedEntity(p, n, supplied, t, "listsID", 1)
    \/ \E p \in OneCaller : FindRelatedEntityScan(p)

FindSpec == FindInit /\ [][FindNext]_vars

-----------------------------------------------------------------------------
(* The operations by what they are called on.  The caller holds the        *)
(* description of a table whose key column is uid, and the description of  *)
(* placemarks; it registers them in TheContext, and calls the operations   *)
(* on its own values as well as on the descriptions it gets from the       *)
(* context.                                                                *)

ListV2Description ==
    [Name |-> "list", TableName |-> "lists_v2", PrimaryKey |-> "uid",
     Relationships |-> NilMap, InsertStatement |-> "insertListV2",
     CreateZeroInstance |-> "ListV2", Context |-> NilContext]

ReceiverInit ==
    /\ EntityDescriptions = [c \in Contexts |-> NilEntityDescriptions]
    /\ relationshipMaps = <<>>
    /\ descriptionVars =
          [v \in DescriptionVars |->
              IF v = 1 THEN ListV2Description ELSE PlacemarkDescription]
    /\ registeredAs = [c \in Contexts |-> EmptyMap]
    /\ lastOp = NoOp
    /\ opCount = 0
    /\ copies = NoCopies
    /\ EngineIdle

\* Registration is not synchronized with the operations (a Go map is not
\* safe for concurrent use): the caller registers while no call is running,
\* and registers a description once.
StartUpRegister(v) ==
    /\ \A p \in Callers : call[p].op = "idle"
    /\ descriptionVars[v].Name \notin DOMAIN EntityDescriptions[TheContext].m
    /\ RegisterEntityDescription(TheContext, v)

\* What the operations are called on.
Receivers == OwnValues \cup EntityNames

ReceiverNext ==
    \/ \E v \in DescriptionVars : StartUpRegister(v)
    \/ \E p \in OneCaller : CallerBegin(p)
    \/ \E p \in OneCaller : Return(p)
    \/ \E p \in OneCaller, x \in Receivers, supplied \in BOOLEAN :
          Create(p, x, supplied)
    \/ \E p \in OneCaller : CreateExec(p)
    \/ \E p \in OneCaller : CreateUpdate(p)
    \/ \E p \in OneCaller : CreateQuery(p)
    \/ \E p \in OneCaller : CreateScan(p)
    \/ \E p \in OneCaller : CreateCleanup(p)
    \/ \E p \in OneCaller, x \in Receivers, supplied \in BOOLEAN,
          a \in FindArguments : FindEntities(p, x, supplied, a)
    \/ \E p \in OneCaller : FindEntitiesScan(p)
    \/ \E p \in OneCaller : FindEntitiesCleanup(p)
    \/ \E p \in OneCaller, x \in Receivers, supplied \in BOOLEAN,
          t \in TargetNames : FindRelatedEntity(p, x, supplied, t, "listsID", 1)
    \/ \E p \in OneCaller : FindRelatedEntityScan(p)

ReceiverSpec == ReceiverInit /\ [][ReceiverNext]_vars

-----------------------------------------------------------------------------
(* Properties of Create.                                                   *)

Finished(c) == c.pc \in {"done", "panic"}

\* The steps of Create after the insert statement has run.
StepsAfterInsert == {"lastInsertId", "update", "query", "scan"}

\* C1: a Create given no transaction, whose implicit transaction began, ends
\* with exactly one terminal action on it: Commit if and only if the insert,
\* the key retrieval, the timestamp update, the re-select and the scan all
\* succeeded, Rollback if any of them failed, a scan that consumed no row
\* included.
C1_OneTerminalAction ==
    \A p \in Callers :
        LET c == call[p]
        IN  (c.op = "Create" /\ ~c.supplied /\ Finished(c) /\ c.failed # "begin")
            => /\ Len(c.terminal) = 1
               /\ (c.terminal[1] = "Commit") <=> (c.failed = "")
               /\ (c.terminal[1] = "Rollback") <=> (c.failed # "")

\* C2: a Create given a transaction never commits it and never rolls it
\* back, whatever step fails: throughout the call and at its return the
\* transaction is open, the caller's, and still holds the row the call
\* inserted.
C2_SuppliedTransactionLeftOpen ==
    \A p \in Callers :
        LET c == call[p]
        IN  (c.op = "Create" /\ c.supplied)
            => /\ c.terminal = <<>>
               /\ tx[p].state = "open"
               /\ tx[p].owner = "caller"
               /\ c.insertedKey # 0 => \E r \in tx[p].pending : r.id = c.insertedKey

\* A Create on the caller's transaction has returned after its insert ran
\* and a later statement failed.
C2_Witness ==
    \E p \in Callers :
        /\ call[p].op = "Create" /\ call[p].supplied /\ call[p].pc = "done"
        /\ call[p].failed = "update"
        /\ call[p].insertedKey # 0

\* C3: when a Create given no transaction fails at a step after the insert,
\* the row it inserted is not among the rows readers see once it has
\* returned.
C3_NoRowAfterFailure ==
    \A p \in Callers :
        LET c == call[p]
        IN  (c.op = "Create" /\ ~c.supplied /\ c.pc = "done"
                /\ c.failed \in StepsAfterInsert)
            => \A r \in committed : r.id # c.insertedKey

\* C4: when Begin fails, Create returns the error of Begin, having executed
\* no statement and invoked neither Commit nor Rollback.
C4_BeginErrorReturned ==
    \A p \in Callers :
        LET c == call[p]
        IN  (c.op = "Create" /\ ~c.supplied /\ c.failed = "begin" /\ Finished(c))
            => /\ c.pc = "done"
               /\ c.err = "BeginErr"
               /\ c.log = <<>>
               /\ c.terminal = <<>>

\* The rows a caller that reads committed data has before it: those its
\* cursor still holds and those already materialized.
RowsRead(p) ==
    { cursor[p].rest[i] : i \in DOMAIN cursor[p].rest }
        \cup { call[p].entities[i].row : i \in DOMAIN call[p].entities }

IsPrefix(s, t) == Len(s) <= Len(t) /\ \A i \in DOMAIN s : s[i] = t[i]

-----------------------------------------------------------------------------
(* Properties of the resources and the errors of the operations.           *)

\* C6: when Create, FindEntities or FindRelatedEntity returns, the cursor it
\* opened and the transaction-bound insert statement it obtained are closed.
C6_HandlesClosedAtReturn ==
    \A p \in Callers :
        call[p].pc = "done" => (cursor[p].state # "open" /\ stmt[p].state # "open")

\* C7: when the query of FindEntities or FindRelatedEntity fails, the call
\* returns, and returns the error of the query.
C7_QueryErrorReturned ==
    \A p \in Callers :
        LET c == call[p]
        IN  (c.op \in {"FindEntities", "FindRelatedEntity"} /\ c.failed = "query")
            => /\ c.pc # "panic"
               /\ c.pc = "done" => c.err = "QueryErr"

-----------------------------------------------------------------------------
(* Properties of the registry.                                             *)

\* C8: every description stored in a context's mapping, which is what
\* EntityDescriptionForName returns for a registered name, refers to that
\* context, is stored under its own name, and has the table name, the primary
\* key and the relationships of the value it was last registered with.
C8_StoredDescriptions ==
    \A c \in Contexts :
        \A n \in DOMAIN EntityDescriptions[c].m :
            LET d == EntityDescriptionForName(c, n)
                arg == registeredAs[c][n]
            IN  /\ EntityDescriptions[c].init
                /\ d.Context = c
                /\ d.Name = n
                /\ arg.Name = n
                /\ d.TableName = arg.TableName
                /\ d.PrimaryKey = arg.PrimaryKey
                /\ d.Relationships = arg.Relationships

\* A description with relationships, looked up in one context, has been
\* registered in another.
C8_Witness ==
    \E c \in Contexts :
        \E n \in DOMAIN EntityDescriptions[c].m :
            /\ registeredAs[c][n].Context \notin {NilContext, c}
            /\ registeredAs[c][n].Relationships # NilMap

\* C9: a registration stores the registered description, with the context
\* set, under its name, in place of what was there, and leaves the entries of
\* all other names and of all other contexts as they were.
C9_LastRegistrationWins ==
    [][ lastOp'.op = "RegisterEntityDescription"
        => LET c == lastOp'.ctx
               arg == descriptionVars[lastOp'.var]
           IN  /\ DescriptionIn(EntityDescriptions', c, arg.Name)
                     = [arg EXCEPT !.Context = c]
               /\ \A n \in (EntityNames \cup {""}) \ {arg.Name} :
                     DescriptionIn(EntityDescriptions', c, n)
                        = DescriptionIn(EntityDescriptions, c, n)
               /\ DOMAIN EntityDescriptions'[c].m
                     = DOMAIN EntityDescriptions[c].m \cup {arg.Name}
               /\ \A c2 \in Contexts \ {c} :
                     EntityDescriptions'[c2] = EntityDescriptions[c2] ]_vars

\* A registration has replaced a different description of the same name,
\* beside an entry of another name.
C9_Witness ==
    /\ lastOp.op = "RegisterEntityDescription"
    /\ lastOp.replaced
    /\ EntityDescriptionForName(lastOp.ctx, lastOp.name).TableName = "lists_v2"
    /\ "placemark" \in DOMAIN EntityDescriptions[lastOp.ctx].m

\* C10: after RegisterRelationship(R) on a description, RelationshipForName
\* of R's target name on it gives R, in place of what was registered for that
\* name before; what any description, held by the caller or stored in a
\* context, gives for every other name is as it was.
C10_RelationshipRegistered ==
    [][ lastOp'.op = "RegisterRelationship"
        => LET v == lastOp'.var
               R == lastOp'.rel
               others == (EntityNames \cup { r.JoinTableName : r \in RelationshipPool }
                            \cup {""}) \ {R.EntityName}
           IN  /\ RelationshipIn(relationshipMaps', descriptionVars'[v], R.EntityName)
                     = R
               /\ \A u \in DescriptionVars, n \in others :
                     RelationshipIn(relationshipMaps', descriptionVars'[u], n)
                        = RelationshipIn(relationshipMaps, descriptionVars[u], n)
               /\ \A c \in Contexts, m \in EntityNames, n \in others :
                     RelationshipIn(relationshipMaps',
                                    DescriptionIn(EntityDescriptions', c, m), n)
                        = RelationshipIn(relationshipMaps,
                                         DescriptionIn(EntityDescriptions, c, m), n) ]_vars

\* A relationship has replaced another of the same target name, on a
\* description that has a relationship of another target name too.
C10_Witness ==
    /\ lastOp.op = "RegisterRelationship"
    /\ lastOp.replaced
    /\ lastOp.rel.JoinTableName = "favourites"
    /\ RelationshipForName(descriptionVars[lastOp.var], "list") # ZeroRelationship

\* C11: a lookup of a name that was never registered gives the zero value
\* and changes nothing: EntityDescriptionForName in a context, also while
\* its mapping is still the nil map, and RelationshipForName on a
\* description, also while its Relationships field is still nil.
C11_LookupMissGivesZero ==
    [][ /\ ( /\ lastOp'.op = "EntityDescriptionForName"
             /\ lastOp'.name \notin DOMAIN registeredAs[lastOp'.ctx] )
           => /\ descriptionVars'[lastOp'.var] = ZeroDescription
              /\ UNCHANGED <<EntityDescriptions, relationshipMaps, registeredAs>>
              /\ \A u \in DescriptionVars \ {lastOp'.var} :
                    descriptionVars'[u] = descriptionVars[u]
        /\ ( /\ lastOp'.op = "RelationshipForName"
             /\ lastOp'.name \notin DOMAIN RelationshipsOf(descriptionVars[lastOp'.var]) )
           => /\ lastOp'.rel = ZeroRelationship
              /\ UNCHANGED <<EntityDescriptions, relationshipMaps, descriptionVars,
                             registeredAs>> ]_vars

\* A name was looked up in a context in which nothing was ever registered,
\* while another context holds descriptions.
C11_Witness ==
    /\ lastOp.op = "EntityDescriptionForName"
    /\ ~EntityDescriptions[lastOp.ctx].init
    /\ descriptionVars[lastOp.var] = ZeroDescription
    /\ \E c \in Contexts : DOMAIN EntityDescriptions[c].m # {}

-----------------------------------------------------------------------------
(* Properties of the find operations.                                      *)

\* The query of the call ran, no scan failed, and the scanner consumed every
\* row the cursor had.
AllRowsScanned(p) ==
    /\ call[p].pc = "done"
    /\ call[p].failed = ""
    /\ cursor[p].state = "closed"
    /\ cursor[p].rest = <<>>

\* C12: when its query succeeds and every scan succeeds, FindEntities returns
\* no error and one entity per row the cursor yielded, in the order the
\* cursor yielded them, each of the description's type and holding its row:
\* as many entities as the table has rows whose column equals the value,
\* none if it has none.
C12_OneEntityPerRow ==
    \A p \in Callers :
        LET c == call[p]
            column == IF c.keyName = NilKeyName THEN c.self.PrimaryKey ELSE c.keyName
        IN  (c.op = "FindEntities" /\ AllRowsScanned(p))
            => /\ c.err = "nil"
               /\ Len(c.entities) = Len(c.fetched)
               /\ \A i \in DOMAIN c.entities :
                     c.entities[i] = [type |-> c.self.CreateZeroInstance,
                                      row |-> c.fetched[i]]
               /\ Len(c.entities) =
                     Cardinality({ r \in committed : /\ r.table = c.self.TableName
                                                     /\ r[column] = c.value })

\* FindEntities has returned two entities for two matching rows.
C12_Witness ==
    \E p \in Callers :
        /\ call[p].op = "FindEntities" /\ AllRowsScanned(p)
        /\ Len(call[p].entities) = 2
        /\ call[p].entities[1] # call[p].entities[2]

\* C13: FindEntity returns the first of the entities FindEntities returned
\* to it, with its error; when no row matched it does not return: it panics
\* on the index, and never gives a blank entity with no error.
C13_FirstOrPanic ==
    \A p \in Callers :
        LET c == call[p]
        IN  c.op = "FindEntity"
            => /\ c.pc = "done" => /\ c.entities # <<>>
                                   /\ c.entity = c.entities[1]
                                   /\ c.entity # NoEntity
                                   /\ c.fetched # <<>>
               /\ (c.pc \in {"done", "panic"} /\ c.failed = "" /\ c.fetched = <<>>)
                     => c.pc = "panic"

\* FindEntity has panicked on the empty result of a query that matched no
\* row.
C13_Witness ==
    \E p \in Callers :
        /\ call[p].op = "FindEntity" /\ call[p].pc = "panic"
        /\ call[p].failed = "" /\ call[p].fetched = <<>>
        /\ call[p].entities = <<>>
        /\ cursor[p].state = "closed"

\* The rows of the join table that FindRelatedEntity is asked about, and the
\* rows of the target table a join row refers to.
RelatedJoinRows(c) ==
    LET relationship == RelationshipForName(c.self, c.targetName)
    IN  { j \in JoinRows : /\ j.table = relationship.JoinTableName
                           /\ j[c.queryKey] = c.value }

TargetRows(c, j) ==
    LET relationship == RelationshipForName(c.self, c.targetName)
    IN  { r \in committed : /\ r.table = c.target.TableName
                            /\ r[relationship.TargetKey] = j[relationship.ForeignKey] }

\* FindRelatedEntity was called for a relationship and a target entity that
\* are registered, its query ran and every row was scanned.
RelatedFound(p) ==
    /\ call[p].op = "FindRelatedEntity"
    /\ AllRowsScanned(p)
    /\ RelationshipForName(call[p].self, call[p].targetName) # ZeroRelationship
    /\ call[p].targetName \in DOMAIN EntityDescriptions[TheContext].m

\* C14 as stated: FindRelatedEntity returns exactly the rows of the target
\* table whose target key is the foreign key of a join row with the given
\* value in the query-key column, one per such join row, as entities of the
\* target description's type.
C14_ExactlyTargetRows ==
    \A p \in Callers :
        LET c == call[p]
        IN  RelatedFound(p)
            => /\ { c.entities[i].row : i \in DOMAIN c.entities }
                     = UNION { TargetRows(c, j) : j \in RelatedJoinRows(c) }
               /\ Len(c.entities) = Cardinality(RelatedJoinRows(c))
               /\ \A i \in DOMAIN c.entities :
                     c.entities[i].type = c.target.CreateZeroInstance

\* What the left outer join gives for a join row: the target row it refers
\* to, or the all-NULL row if there is none.
JoinedRow(c, j) ==
    IF TargetRows(c, j) = {} THEN NullRow ELSE CHOOSE r \in TargetRows(c, j) : TRUE

\* C14: FindRelatedEntity returns one entity per join row with the given
\* value in the query-key column, in any order: an entity of the target
\* description's type, holding the target row whose target key is the join
\* row's foreign key, or the all-NULL row where the target table has no such
\* row.
C14_OneResultPerJoinRow ==
    \A p \in Callers :
        LET c == call[p]
            J == RelatedJoinRows(c)
        IN  RelatedFound(p)
            => /\ Len(c.entities) = Cardinality(J)
               /\ \A j \in J :
                     Cardinality({ i \in DOMAIN c.entities :
                                     c.entities[i].row = JoinedRow(c, j) })
                        = Cardinality({ k \in J : JoinedRow(c, k) = JoinedRow(c, j) })
               /\ \A i \in DOMAIN c.entities :
                     /\ c.entities[i].type = c.target.CreateZeroInstance
                     /\ c.entities[i].type # c.self.CreateZeroInstance

\* FindRelatedEntity has returned a placemark and a blank entity for two join
\* rows of which one refers to a placemark that is not stored.
C14_Witness ==
    \E p \in Callers :
        /\ RelatedFound(p)
        /\ Len(call[p].entities) = 2
        /\ \E i, k \in DOMAIN call[p].entities :
              /\ call[p].entities[i].row = NullRow
              /\ call[p].entities[k].row \in committed

-----------------------------------------------------------------------------
(* Properties of what Create returns and of what the calls share.          *)

\* C15: a Create that succeeds returns an entity of the description's type
\* scanned from the row of the description's table that has the key its
\* insert generated, with the creation date the call assigned; and its
\* UPDATE and its SELECT address the row by the description's PrimaryKey
\* column.
C15_CreatedEntityIsInsertedRow ==
    \A p \in Callers :
        LET c == call[p]
        IN  (c.op = "Create" /\ c.pc = "done" /\ c.failed = "")
            => /\ c.entity.type = c.self.CreateZeroInstance
               /\ c.entity.row.table = c.self.TableName
               /\ c.entity.row[c.self.PrimaryKey] = c.insertedKey
               /\ c.createdTime \in Times
               /\ c.entity.row.createdDate = c.createdTime
               /\ \A i \in DOMAIN c.log :
                     c.log[i].sql.verb \in {"UPDATE", "SELECT"}
                        => c.log[i].sql.where = c.self.PrimaryKey

\* The Create call holds the statement handle it bound to its transaction:
\* it has executed the insert and has not yet run its deferred closes.
HoldsStatement(c) == c.op = "Create" /\ c.log # <<>> /\ ~Finished(c)

\* C16: however Create calls on one description interleave, none changes the
\* description, the registry or the prepared insert statements that the
\* calls share: every shared statement stays open, the registry stays as it
\* was set up, each call keeps the description it was called on, and the
\* statement handle of a call is open until that call itself closes it.
C16_SharedStateUntouched ==
    /\ \A s \in DOMAIN insertStatements : insertStatements[s] = "open"
    /\ RegistrySetUp
    /\ \A p \in Callers :
          call[p].op = "Create"
          => /\ call[p].self = EntityDescriptionForName(TheContext, call[p].receiver)
             /\ HoldsStatement(call[p]) => stmt[p].state = "open"
             /\ call[p].pc = "done" => stmt[p].state # "open"

\* A Create has returned and closed its statement handle while another
\* Create on the same description, which began before, still uses its own
\* and goes on to scan the row it inserted.
C16_Witness ==
    \E p, q \in Callers :
        /\ call[p].op = "Create" /\ call[p].pc = "done"
        /\ stmt[p].state = "closed"
        /\ call[q].op = "Create" /\ call[q].pc = "scan"
        /\ stmt[q].state = "open"
        /\ call[q].self = call[p].self
        /\ call[q].insertedKey < call[p].insertedKey

-----------------------------------------------------------------------------
(* Properties of what the find operations run their query on.              *)

FindOps == {"FindEntities", "FindRelatedEntity"}

\* The rows the query of a call yielded.
Fetched(c) == { c.fetched[i] : i \in DOMAIN c.fetched } \ {NullRow}

\* C17: FindEntities and FindRelatedEntity run one statement: on the
\* transaction they are given, seeing its uncommitted rows, and otherwise on
\* the connection, seeing committed rows only; they begin, commit and roll
\* back no transaction, and the caller's transaction is as it was while they
\* run.  Given no key name, FindEntities filters on the PrimaryKey column of
\* its description.
C17_QueryOnGivenTransaction ==
    /\ [](\A p \in Callers :
            LET c == call[p]
            IN  c.op \in FindOps
                => /\ c.terminal = <<>>
                   /\ Len(c.log) <= 1
                   /\ \A i \in DOMAIN c.log :
                         /\ c.log[i].sql = c.sql
                         /\ c.log[i].on = IF c.supplied THEN "tx" ELSE "db"
                   /\ c.supplied
                         => /\ tx[p].state = "open" /\ tx[p].owner = "caller"
                            /\ Fetched(c) \subseteq CommittedWith(tx[p])
                   /\ ~c.supplied => Fetched(c) \subseteq committed
                   /\ (c.op = "FindEntities" /\ c.keyName = NilKeyName /\ c.log # <<>>)
                         => c.sql.where = c.self.PrimaryKey)
    /\ [][\A p \in Callers : call'[p].op \in FindOps => tx'[p] = tx[p]]_vars

\* FindEntities, given a transaction and no key name, has found by its uid
\* a row that the transaction inserted and has not committed.
C17_Witness ==
    \E p \in Callers :
        /\ call[p].op = "FindEntities" /\ call[p].supplied
        /\ call[p].keyName = NilKeyName
        /\ call[p].self.PrimaryKey = "uid"
        /\ \E r \in Fetched(call[p]) : r \notin committed /\ r.uid = call[p].value

\* C18: FindRelatedEntity, called with a target name for which its
\* description has no relationship or which is not registered in the
\* context, raises no error of its own: it builds the statement from the
\* zero relationship or the zero description, with their empty names, and
\* executes it; an error it returns is the datastore's or the scanner's.
C18_UnknownTargetExecuted ==
    \A p \in Callers :
        LET c == call[p]
            noRelationship == c.targetName \notin DOMAIN RelationshipsOf(c.self)
            noDescription ==
                c.targetName \notin DOMAIN EntityDescriptions[c.self.Context].m
        IN  (c.op = "FindRelatedEntity" /\ c.self.Context # NilContext
                /\ (noRelationship \/ noDescription))
            => /\ Len(c.log) = 1
               /\ c.log[1].sql = c.sql
               /\ c.sql.verb = "JOIN"
               /\ c.sql.where = c.queryKey
               /\ noRelationship => /\ c.sql.joinTable = ""
                                    /\ c.sql.foreignKey = ""
                                    /\ c.sql.targetKey = ""
               /\ ~noRelationship
                     => c.sql.joinTable
                           = RelationshipForName(c.self, c.targetName).JoinTableName
               /\ noDescription => c.sql.table = "" /\ c.target = ZeroDescription
               /\ ~noDescription => c.sql.table = c.target.TableName /\ c.sql.table # ""
               /\ c.err # "nil" => c.failed \in {"query", "scan"}

\* FindRelatedEntity has executed a statement with no table names, for a
\* target that is registered nowhere, and the datastore has rejected it.
C18_Witness ==
    \E p \in Callers :
        /\ call[p].op = "FindRelatedEntity"
        /\ call[p].targetName = "tag"
        /\ RelationshipForName(call[p].self, "placemark") # ZeroRelationship
        /\ Len(call[p].log) = 1
        /\ call[p].log[1].sql.table = "" /\ call[p].log[1].sql.joinTable = ""
        /\ call[p].failed = "query"

-----------------------------------------------------------------------------
(* Properties of the values the caller holds.                              *)

\* The operations that read the Context of the description they are called
\* on: Create and FindEntities given no transaction, and FindRelatedEntity.
NeedsContext(c) ==
    \/ c.op = "FindRelatedEntity"
    \/ c.op \in {"Create", "FindEntities", "FindEntity"} /\ ~c.supplied

\* C19: RegisterEntityDescription(D) writes the mapping of its context and
\* nothing else: the caller's D is as it was, its Context still unset, while
\* the stored copy refers to the context.  So an operation that needs the
\* Context panics on the nil Context of the caller's own D, before it
\* executes anything, and does not on the description the context returns.
C19_CallerValueUnchanged ==
    /\ [][ (opCount' # opCount /\ lastOp'.op = "RegisterEntityDescription")
            => /\ descriptionVars' = descriptionVars
               /\ relationshipMaps' = relationshipMaps
               /\ engineVars' = engineVars
               /\ \A c \in Contexts \ {lastOp'.ctx} :
                     EntityDescriptions'[c] = EntityDescriptions[c]
               /\ descriptionVars'[lastOp'.var].Context = NilContext
               /\ DescriptionIn(EntityDescriptions', lastOp'.ctx, lastOp'.name).Context
                     = lastOp'.ctx ]_vars
    /\ [](\A p \in Callers :
            LET c == call[p]
            IN  c.op # "idle"
                => /\ c.failed = "context"
                        <=> (c.receiver \in OwnValues /\ NeedsContext(c))
                   /\ c.failed = "context" => c.pc = "panic" /\ c.log = <<>>)

\* The caller has registered its description of placemarks and then called
\* Create on its own value, with no transaction: the call has panicked.
C19_Witness ==
    \E p \in Callers :
        /\ call[p].op = "Create" /\ call[p].receiver = "var2"
        /\ call[p].failed = "context" /\ call[p].pc = "panic"
        /\ lastOp.op = "RegisterEntityDescription" /\ lastOp.var = 2
        /\ EntityDescriptionForName(TheContext, "placemark").Context = TheContext
        /\ descriptionVars[2].Context = NilContext

\* C20: when a relationship is registered on a value the caller holds, an
\* entry of a context that the value was copied into, or was copied out of,
\* shows the relationship if and only if the Relationships field was a map
\* already when the copy was made; if it was not, the entry still gives the
\* zero relationship for the target name.
C20_VisibleIffInitialisedAtCopy ==
    [][ (opCount' # opCount /\ lastOp'.op = "RegisterRelationship")
        => \A l \in copies[lastOp'.var] :
              LET entry == DescriptionIn(EntityDescriptions', l.ctx, l.name)
                  seen == RelationshipIn(relationshipMaps', entry, lastOp'.name)
              IN  /\ (seen = lastOp'.rel) <=> l.initialised
                  /\ ~l.initialised => seen = ZeroRelationship ]_vars

\* A value was registered in one context before it had a map and in another
\* after; the relationship registered on it since shows through the second
\* entry and not through the first.
C20_Witness ==
    /\ lastOp.op = "RegisterRelationship"
    /\ RelationshipForName(descriptionVars[lastOp.var], lastOp.name) = lastOp.rel
    /\ \E l1, l2 \in copies[lastOp.var] :
          /\ l1.initialised /\ ~l2.initialised
          /\ RelationshipForName(EntityDescriptionForName(l1.ctx, l1.name),
                                 lastOp.name) = lastOp.rel
          /\ RelationshipForName(EntityDescriptionForName(l2.ctx, l2.name),
                                 lastOp.name) = ZeroRelationship

====
